---------------------------- MODULE Spec2Model ----------------------------
(***************************************************************************)
(* rocker_stress: shear stress at the bottom of a rocking dish (Zhou et    *)
(* al. 2010, Lister 1992).  The model follows src/rocker_stress/zhou2010.py*)
(* and src/rocker_stress/experiment.py.                                    *)
(*                                                                         *)
(* Numbers.  The program computes with float64.  Here every number is an   *)
(* exact rational <<n, d>> (d > 0, lowest terms), so the formulas of the   *)
(* source are evaluated in real arithmetic: float64 rounding is not        *)
(* represented.  np.tan, np.arctan and np.sin are library functions; they  *)
(* are modelled by their values at knots, linearly interpolated, which     *)
(* keeps what the source relies on (odd, strictly increasing, tan 0 = 0,   *)
(* arctan the inverse of tan, sin 0 = sin pi = sin 2 pi = 0).              *)
(***************************************************************************)
EXTENDS Integers, Sequences, FiniteSets, TLC

VARIABLES
    api,        \* the entry point of the call being followed
    rocking,    \* Experiment.rocking (a SineRocking or a ConstantRocking)
    dish,       \* Experiment.dish (a RectDish or a CylDish)
    viscosity,  \* Experiment.viscosity
    ntimes,     \* the argument of fluid_flux / shear_stress / angle
    pc,         \* the statement the call is at
    err,        \* the exception that ended the call, or NoError
    lub,        \* the LubricationLister92 built by Experiment.shear_stress
    loc,        \* ConstantRocking.angle's locals: n_fwd, n_back, times, values, ...
    angle,      \* the angle series (rocking.angle's result, or the argument)
    volume,     \* fluid_volume(angle); the receiver of a direct derivate() call
    grad,       \* volume.derivate()
    flux,       \* volume.derivate().neg(): the result of fluid_flux
    stress      \* shear_stress_bottom(flux): the result of shear_stress

vars == <<api, rocking, dish, viscosity, ntimes, pc, err, lub, loc,
          angle, volume, grad, flux, stress>>

---------------------------------------------------------------------------
(* Bounds of the model.                                                    *)

\* ntimes ranges over 0 .. MaxNtimes
MaxNtimes == 5
\* a series passed directly to Dish.fluid_flux or TimeSeries.derivate has at
\* most MaxLen samples
MaxLen == 3

---------------------------------------------------------------------------
(* Exact rational arithmetic.                                              *)

RECURSIVE GCD(_, _)
GCD(a, b) == IF b = 0 THEN a ELSE GCD(b, a % b)

IAbs(n) == IF n < 0 THEN -n ELSE n

Norm(n, d) ==
    LET s == IF d < 0 THEN -1 ELSE 1
        g == GCD(IAbs(n), IAbs(d))
    IN  <<(s * n) \div g, (s * d) \div g>>

Q(n, d) == Norm(n, d)
Z(n) == <<n, 1>>
Zero == Z(0)

RAdd(x, y) == Norm(x[1] * y[2] + y[1] * x[2], x[2] * y[2])
RNeg(x) == <<-x[1], x[2]>>
RSub(x, y) == RAdd(x, RNeg(y))
RMul(x, y) ==
    LET g1 == GCD(IAbs(x[1]), y[2])
        g2 == GCD(IAbs(y[1]), x[2])
    IN  Norm((x[1] \div g1) * (y[1] \div g2), (x[2] \div g2) * (y[2] \div g1))
RDiv(x, y) == RMul(x, Norm(y[2], y[1]))
RLt(x, y) == x[1] * y[2] < y[1] * x[2]
RLe(x, y) == x[1] * y[2] <= y[1] * x[2]
RAbs(x) == <<IAbs(x[1]), x[2]>>
Sign(x) == IF x[1] > 0 THEN 1 ELSE IF x[1] < 0 THEN -1 ELSE 0
\* floor, and Python's int(): truncation toward zero
Floor(x) == x[1] \div x[2]
Trunc(x) == IF x[1] >= 0 THEN x[1] \div x[2] ELSE -((-x[1]) \div x[2])

---------------------------------------------------------------------------
(* The library functions.                                                  *)

\* np.pi
Pi == Q(22, 7)

\* 100 * tan(k / 10) for k = 1 .. 12 (radians), rounded
TanTab == <<10, 20, 31, 42, 55, 68, 84, 103, 126, 156, 196, 257>>
TanKnot(k) == IF k = 0 THEN 0 ELSE TanTab[k]

\* np.tan on [0, 1.2), interpolated between the knots
TanPos(x) ==
    LET k == Floor(RMul(Z(10), x))
        f == RSub(RMul(Z(10), x), Z(k))
    IN  RDiv(RAdd(Z(TanKnot(k)), RMul(f, Z(TanKnot(k + 1) - TanKnot(k)))), Z(100))

\* np.tan
Tan(x) == IF x[1] < 0 THEN RNeg(TanPos(RNeg(x))) ELSE TanPos(x)

\* np.arctan on [0, 2.57): the inverse of TanPos
ArcTanPos(y) ==
    LET h == RMul(Z(100), y)
        k == CHOOSE j \in 0..(Len(TanTab) - 1) :
                 /\ RLe(Z(TanKnot(j)), h)
                 /\ RLt(h, Z(TanKnot(j + 1)))
    IN  RDiv(RAdd(Z(k), RDiv(RSub(h, Z(TanKnot(k))), Z(TanKnot(k + 1) - TanKnot(k)))),
             Z(10))

\* np.arctan
ArcTan(y) == IF y[1] < 0 THEN RNeg(ArcTanPos(RNeg(y))) ELSE ArcTanPos(y)

\* 100 * sin(2 pi k / 12) for k = 0 .. 12, rounded
SinTab == <<0, 50, 87, 100, 87, 50, 0, -50, -87, -100, -87, -50, 0>>

\* np.sin(2 * np.pi * x) for x in [0, 1] (x counts turns)
SinTurns(x) ==
    LET k == Floor(RMul(Z(12), x))
        f == RSub(RMul(Z(12), x), Z(k))
    IN  IF k >= 12 THEN Zero
        ELSE RDiv(RAdd(Z(SinTab[k + 1]), RMul(f, Z(SinTab[k + 2] - SinTab[k + 1]))),
                  Z(100))

\* np.linspace(start, stop, num) for num >= 0
Linspace(start, stop, num) ==
    IF num = 1 THEN <<start>>
    ELSE [i \in 1..num |->
            IF i = num THEN stop
            ELSE RAdd(start, RMul(Z(i - 1), RDiv(RSub(stop, start), Z(num - 1))))]

\* np.zeros(n)
Zeros(n) == [i \in 1..n |-> Zero]

\* np.gradient(f, x) for len(f) >= 2, edge_order 1.  numpy takes the uniform
\* formula when all steps are equal and the weighted one otherwise.
Gradient(f, x) ==
    LET n == Len(f)
        dx == [i \in 1..(n - 1) |-> RSub(x[i + 1], x[i])]
        uniform == \A i \in 1..(n - 1) : dx[i] = dx[1]
        Interior(i) ==
            IF uniform
            THEN RDiv(RSub(f[i + 1], f[i - 1]), RMul(Z(2), dx[1]))
            ELSE LET dx1 == dx[i - 1]
                     dx2 == dx[i]
                     a == RNeg(RDiv(dx2, RMul(dx1, RAdd(dx1, dx2))))
                     b == RDiv(RSub(dx2, dx1), RMul(dx1, dx2))
                     c == RDiv(dx1, RMul(dx2, RAdd(dx1, dx2)))
                 IN  RAdd(RAdd(RMul(a, f[i - 1]), RMul(b, f[i])), RMul(c, f[i + 1]))
    IN  [i \in 1..n |->
            IF i = 1 THEN RDiv(RSub(f[2], f[1]), dx[1])
            ELSE IF i = n THEN RDiv(RSub(f[n], f[n - 1]), dx[n - 1])
            ELSE Interior(i)]

---------------------------------------------------------------------------
(* TimeSeries.                                                             *)

NoSeries == [defined |-> FALSE, times |-> <<>>, values |-> <<>>]
TimeSeries(t, v) == [defined |-> TRUE, times |-> t, values |-> v]

with_values(self, values) == TimeSeries(self.times, values)

\* the sign flip left out
neg_forgotten(self) == with_values(self, self.values)

\* the sign flip applied to the times as well
neg_times_too(self) ==
    TimeSeries([i \in 1..Len(self.times) |-> RNeg(self.times[i])],
               [i \in 1..Len(self.values) |-> RNeg(self.values[i])])

neg(self) == with_values(self, [i \in 1..Len(self.values) |-> RNeg(self.values[i])])

\* the derivative left out: the values returned as they are
derivate_forgotten(self) == with_values(self, self.values)

\* np.gradient(self.values): the times left out, a unit step assumed
derivate_unit_step(self) ==
    with_values(self, Gradient(self.values, [i \in 1..Len(self.values) |-> Z(i)]))

\* for a receiver of at least 2 samples (np.gradient raises ValueError below that)
derivate(self) == with_values(self, Gradient(self.values, self.times))


---------------------------------------------------------------------------
(* Rocking patterns.                                                       *)

SineRocking(angle_max, period) ==
    [kind |-> "SineRocking", angle_max |-> angle_max, period |-> period]

ConstantRocking(forward_angular_vel, backward_angular_vel, angle_max) ==
    [kind |-> "ConstantRocking",
     forward_angular_vel |-> forward_angular_vel,
     backward_angular_vel |-> backward_angular_vel,
     angle_max |-> angle_max]

NoRocking == [kind |-> "none"]

\* SineRocking.angle for ntimes >= 0 (np.linspace raises ValueError below 0)
SineAngleSeries(self, n) ==
    LET times == Linspace(Zero, self.period, n)
        values == [i \in 1..n |->
                      RMul(self.angle_max, SinTurns(RDiv(times[i], self.period)))]
    IN  TimeSeries(times, values)

\* ConstantRocking.angle: the split of the samples between the two phases
n_fwd(self, n) ==
    Trunc(RMul(RDiv(self.backward_angular_vel,
                    RAdd(self.backward_angular_vel, self.forward_angular_vel)),
               Z(n)))
\* the remainder counted one too many
n_back_plus_one(self, n) == n - n_fwd(self, n) + 1
n_back(self, n) == n - n_fwd(self, n)

\* the assert written with >= for the forward count
PhasesOkLoose(nf, nb) == nf >= 0 /\ nb > 0

\* the assert of ConstantRocking.angle
PhasesOk(nf, nb) == nf > 0 /\ nb > 0

dt_fwd(self) == RDiv(self.angle_max, self.forward_angular_vel)
dt_back(self) == RDiv(self.angle_max, self.backward_angular_vel)

\* the indices (from 0) an array of n slots takes for the slices [:k] and [-k:],
\* k > 0
SliceHead(n, k) == {i \in 0..(n - 1) : i < k}
SliceTail(n, k) == {i \in 0..(n - 1) : i >= n - k}

\* the slices ConstantRocking.angle writes in the forward and the backward phase
FwdSlice(n, nf) == SliceHead(n, nf + 1)
BackSlice(n, nb) == SliceTail(n, nb)

IMin(S) == CHOOSE m \in S : \A k \in S : m <= k

\* arr[idx] = rhs, where idx is a slice and rhs has as many elements
Assign(arr, idx, rhs) ==
    [i \in 1..Len(arr) |->
        IF (i - 1) \in idx THEN rhs[i - IMin(idx)] ELSE arr[i]]

\* the right-hand sides of the four slice assignments of ConstantRocking.angle
FwdTimes(self, nf) == Linspace(Zero, dt_fwd(self), nf + 1)
FwdValues(self, nf) == Linspace(Zero, self.angle_max, nf + 1)
\* the backward times started again from 0
BackTimesFromZero(self, nb) == Linspace(Zero, dt_back(self), nb)
BackTimes(self, nb) == Linspace(dt_fwd(self), RAdd(dt_fwd(self), dt_back(self)), nb)
BackValues(self, nb) == Linspace(self.angle_max, Zero, nb)

NoLocals ==
    [n_fwd |-> 0, n_back |-> 0, allocated |-> FALSE, times |-> <<>>,
     values |-> <<>>, fwd_written |-> {}, back_written |-> {}]

---------------------------------------------------------------------------
(* Dishes.                                                                 *)

RectDish(length, width, height) ==
    [kind |-> "RectDish", length |-> length, width |-> width, height |-> height]

CylDish(radius, vol) == [kind |-> "CylDish", radius |-> radius, vol |-> vol]

fluid_height(self) ==
    IF self.kind = "RectDish" THEN self.height
    ELSE RDiv(self.vol, RMul(Pi, RMul(self.radius, self.radius)))

cross_length(self) ==
    IF self.kind = "RectDish" THEN self.width ELSE self.radius

critical_angle(self) ==
    IF self.kind = "RectDish"
    THEN ArcTan(RDiv(RMul(Z(2), self.height), self.length))
    ELSE ArcTan(RDiv(fluid_height(self), self.radius))

\* RectDish.fluid_volume at one angle
RectVolume(self, a) ==
    RMul(RDiv(RMul(self.width, self.length), Z(2)),
         RSub(self.height, RMul(RDiv(self.length, Z(4)), Tan(a))))

\* CylDish.fluid_volume at one angle
CylVolume(self, a) ==
    RMul(RMul(self.radius, self.radius),
         RSub(RDiv(RMul(Pi, fluid_height(self)), Z(2)),
              RMul(RDiv(RMul(Z(2), self.radius), Z(3)), Tan(a))))

fluid_volume(self, a) ==
    with_values(a, [i \in 1..Len(a.values) |->
                       IF self.kind = "RectDish" THEN RectVolume(self, a.values[i])
                       ELSE CylVolume(self, a.values[i])])

\* the test written with >= : an angle equal to the critical angle is refused
AngleBeyondOrEqual(self, a) ==
    \E i \in 1..Len(a.values) : RLe(critical_angle(self), RAbs(a.values[i]))

\* the test of Dish.fluid_flux: np.any(np.absolute(angle.values) > critical_angle)
AngleBeyond(self, a) ==
    \E i \in 1..Len(a.values) : RLt(critical_angle(self), RAbs(a.values[i]))

---------------------------------------------------------------------------
(* LubricationLister92.                                                    *)

LubricationLister92(dynamic_viscosity, height, width) ==
    [dynamic_viscosity |-> dynamic_viscosity, height |-> height, width |-> width]

NoLub == LubricationLister92(Zero, Zero, Zero)

shear_stress_bottom(self, f) ==
    LET k == RDiv(Z(3), RMul(self.width, RMul(self.height, self.height)))
    IN  with_values(f, [i \in 1..Len(f.values) |->
                           RMul(self.dynamic_viscosity, RMul(k, f.values[i]))])

---------------------------------------------------------------------------
(* Exceptions.  The source raises Python's built-in exceptions; the two    *)
(* failure kinds of the design are these.                                  *)

NoError == "none"
\* raise RuntimeError("angle beyond critical value ...") in Dish.fluid_flux
AngleExceeded == "RuntimeError"
\* assert n_fwd > 0 and n_back > 0 in ConstantRocking.angle
InvalidConfiguration == "AssertionError"
\* raised by np.linspace (negative num), by np.gradient (fewer than 2 samples)
\* and by a slice assignment of the wrong shape
ValueError == "ValueError"

---------------------------------------------------------------------------
(* The inputs the model draws.                                             *)

Rockings ==
    {SineRocking(a, Z(10)) : a \in {Zero, Q(1, 5), Q(1, 2)}}
    \cup
    {ConstantRocking(f, b, a) :
        f \in {Zero, Z(1), Z(2), Z(10)}, b \in {Z(1), Z(2), Z(7)}, a \in {Q(1, 5), Q(2, 5)}}

Dishes == {RectDish(Z(4), Z(1), Z(1)), RectDish(Z(2), Z(1), Z(1)), CylDish(Z(1), Z(2))}

Viscosities == {Z(1), Q(9, 10)}

\* the strictly increasing time vectors over 0 .. MaxLen of at most MaxLen samples
SortedSeq(S) ==
    CHOOSE q \in [1..Cardinality(S) -> S] :
        \A i, j \in 1..Cardinality(S) : i < j => q[i] < q[j]
TimeVectors ==
    {[i \in 1..Cardinality(S) |-> Z(SortedSeq(S)[i])] :
        S \in {T \in SUBSET (0..MaxLen) : Cardinality(T) <= MaxLen}}

\* the angles of a series passed to Dish.fluid_flux: at rest, inside, at and
\* beyond the dish's critical angle
AngleValues(d) ==
    LET c == critical_angle(d)
    IN  {Zero, Q(1, 5), Q(-1, 5), c, RNeg(c), RAdd(c, Q(1, 100)), RNeg(RAdd(c, Q(1, 100)))}

AngleSeries(d) ==
    UNION {{TimeSeries(t, v) : v \in [1..Len(t) -> AngleValues(d)]} : t \in TimeVectors}

\* the linear ramps values = k * times + c
Slopes == {Z(-2), Zero, Q(1, 2), Z(3)}
Intercepts == {Zero, Z(1)}
Ramp(t, k, c) == TimeSeries(t, [i \in 1..Len(t) |-> RAdd(RMul(k, t[i]), c)])
Ramps == {Ramp(t, k, c) : t \in TimeVectors, k \in Slopes, c \in Intercepts}

---------------------------------------------------------------------------
(* The state after construction: an Experiment about to be asked for its   *)
(* flux or stress, a Dish about to be asked for the flux of an angle       *)
(* series, or a TimeSeries about to be derived.                            *)

InitExperiment ==
    /\ api \in {"Experiment.shear_stress", "Experiment.fluid_flux"}
    /\ rocking \in Rockings
    /\ dish \in Dishes
    /\ viscosity \in Viscosities
    /\ ntimes \in 0..MaxNtimes
    /\ pc = api
    /\ angle = NoSeries
    /\ volume = NoSeries

InitDish ==
    /\ api = "Dish.fluid_flux"
    /\ rocking = NoRocking
    /\ dish \in Dishes
    /\ viscosity = Zero
    /\ angle \in AngleSeries(dish)
    /\ ntimes = Len(angle.times)
    /\ pc = api
    /\ volume = NoSeries

InitSeries ==
    /\ api = "TimeSeries.derivate"
    /\ rocking = NoRocking
    /\ dish \in {RectDish(Z(4), Z(1), Z(1))}
    /\ viscosity = Zero
    /\ angle = NoSeries
    /\ volume \in Ramps
    /\ ntimes = Len(volume.times)
    /\ pc = api

Init ==
    /\ InitExperiment \/ InitDish \/ InitSeries
    /\ err = NoError
    /\ lub = NoLub
    /\ loc = NoLocals
    /\ grad = NoSeries
    /\ flux = NoSeries
    /\ stress = NoSeries

Raise(e) == pc' = "raised" /\ err' = e

---------------------------------------------------------------------------
(* Experiment.                                                             *)

\* Experiment.shear_stress: builds the lubrication model, then calls fluid_flux
ExperimentShearStress ==
    /\ pc = "Experiment.shear_stress"
    /\ lub' = LubricationLister92(viscosity, fluid_height(dish), cross_length(dish))
    /\ pc' = "Experiment.fluid_flux"
    /\ UNCHANGED <<api, rocking, dish, viscosity, ntimes, err, loc,
                   angle, volume, grad, flux, stress>>

\* Experiment.fluid_flux: calls rocking.angle(ntimes)
ExperimentFluidFlux ==
    /\ pc = "Experiment.fluid_flux"
    /\ pc' = rocking.kind
    /\ UNCHANGED <<api, rocking, dish, viscosity, ntimes, err, lub, loc,
                   angle, volume, grad, flux, stress>>

---------------------------------------------------------------------------
(* RockingPattern.angle.                                                   *)

SineRockingAngle ==
    /\ pc = "SineRocking"
    /\ IF ntimes < 0
       THEN Raise(ValueError) /\ UNCHANGED angle
       ELSE /\ angle' = SineAngleSeries(rocking, ntimes)
            /\ pc' = "Dish.fluid_flux"
            /\ UNCHANGED err
    /\ UNCHANGED <<api, rocking, dish, viscosity, ntimes, lub, loc,
                   volume, grad, flux, stress>>

\* ConstantRocking.angle, the split and the assert
ConstantRockingSplit ==
    /\ pc = "ConstantRocking"
    /\ loc' = [loc EXCEPT !.n_fwd = n_fwd(rocking, ntimes),
                          !.n_back = n_back(rocking, ntimes)]
    /\ IF PhasesOk(loc'.n_fwd, loc'.n_back)
       THEN pc' = "ConstantRocking.zeros" /\ UNCHANGED err
       ELSE Raise(InvalidConfiguration)
    /\ UNCHANGED <<api, rocking, dish, viscosity, ntimes, lub,
                   angle, volume, grad, flux, stress>>

\* ConstantRocking.angle, times = np.zeros(ntimes); values = np.zeros_like(times)
ConstantRockingZeros ==
    /\ pc = "ConstantRocking.zeros"
    /\ loc' = [loc EXCEPT !.allocated = TRUE,
                          !.times = Zeros(ntimes),
                          !.values = Zeros(ntimes)]
    /\ pc' = "ConstantRocking.forward"
    /\ UNCHANGED <<api, rocking, dish, viscosity, ntimes, err, lub,
                   angle, volume, grad, flux, stress>>

\* ConstantRocking.angle, the forward phase
ConstantRockingForward ==
    /\ pc = "ConstantRocking.forward"
    /\ LET idx == FwdSlice(ntimes, loc.n_fwd)
       IN  IF Cardinality(idx) # loc.n_fwd + 1
           THEN Raise(ValueError) /\ UNCHANGED loc
           ELSE /\ loc' = [loc EXCEPT
                      !.times = Assign(@, idx, FwdTimes(rocking, loc.n_fwd)),
                      !.values = Assign(@, idx, FwdValues(rocking, loc.n_fwd)),
                      !.fwd_written = idx]
                /\ pc' = "ConstantRocking.backward"
                /\ UNCHANGED err
    /\ UNCHANGED <<api, rocking, dish, viscosity, ntimes, lub,
                   angle, volume, grad, flux, stress>>

\* ConstantRocking.angle, the backward phase and the return
ConstantRockingBackward ==
    /\ pc = "ConstantRocking.backward"
    /\ LET idx == BackSlice(ntimes, loc.n_back)
       IN  IF Cardinality(idx) # loc.n_back
           THEN Raise(ValueError) /\ UNCHANGED <<loc, angle>>
           ELSE /\ loc' = [loc EXCEPT
                      !.times = Assign(@, idx, BackTimes(rocking, loc.n_back)),
                      !.values = Assign(@, idx, BackValues(rocking, loc.n_back)),
                      !.back_written = idx]
                /\ angle' = TimeSeries(loc'.times, loc'.values)
                /\ pc' = "Dish.fluid_flux"
                /\ UNCHANGED err
    /\ UNCHANGED <<api, rocking, dish, viscosity, ntimes, lub,
                   volume, grad, flux, stress>>

---------------------------------------------------------------------------
(* Dish.fluid_flux.                                                        *)

\* the critical angle test
DishFluidFlux ==
    /\ pc = "Dish.fluid_flux"
    /\ IF AngleBeyond(dish, angle)
       THEN Raise(AngleExceeded)
       ELSE pc' = "Dish.fluid_volume" /\ UNCHANGED err
    /\ UNCHANGED <<api, rocking, dish, viscosity, ntimes, lub, loc,
                   angle, volume, grad, flux, stress>>

\* self.fluid_volume(angle)
DishFluidVolume ==
    /\ pc = "Dish.fluid_volume"
    /\ volume' = fluid_volume(dish, angle)
    /\ pc' = "TimeSeries.derivate"
    /\ UNCHANGED <<api, rocking, dish, viscosity, ntimes, err, lub, loc,
                   angle, grad, flux, stress>>

\* .derivate(): np.gradient raises ValueError on fewer than 2 samples
TimeSeriesDerivate ==
    /\ pc = "TimeSeries.derivate"
    /\ IF Len(volume.values) < 2
       THEN Raise(ValueError) /\ UNCHANGED grad
       ELSE /\ grad' = derivate(volume)
            /\ pc' = IF api = "TimeSeries.derivate" THEN "returned" ELSE "TimeSeries.neg"
            /\ UNCHANGED err
    /\ UNCHANGED <<api, rocking, dish, viscosity, ntimes, lub, loc,
                   angle, volume, flux, stress>>

\* .neg(), and the return of fluid_flux
TimeSeriesNeg ==
    /\ pc = "TimeSeries.neg"
    /\ flux' = neg(grad)
    /\ pc' = IF api = "Experiment.shear_stress"
             THEN "LubricationLister92.shear_stress_bottom" ELSE "returned"
    /\ UNCHANGED <<api, rocking, dish, viscosity, ntimes, err, lub, loc,
                   angle, volume, grad, stress>>

---------------------------------------------------------------------------
(* LubricationLister92.shear_stress_bottom, and shear_stress's return.     *)

ShearStressBottom ==
    /\ pc = "LubricationLister92.shear_stress_bottom"
    /\ stress' = shear_stress_bottom(lub, flux)
    /\ pc' = "returned"
    /\ UNCHANGED <<api, rocking, dish, viscosity, ntimes, err, lub, loc,
                   angle, volume, grad, flux>>

Next ==
    \/ ExperimentShearStress
    \/ ExperimentFluidFlux
    \/ SineRockingAngle
    \/ ConstantRockingSplit
    \/ ConstantRockingZeros
    \/ ConstantRockingForward
    \/ ConstantRockingBackward
    \/ DishFluidFlux
    \/ DishFluidVolume
    \/ TimeSeriesDerivate
    \/ TimeSeriesNeg
    \/ ShearStressBottom

Spec == Init /\ [][Next]_vars

---------------------------------------------------------------------------
(* The properties.                                                         *)

ExperimentApis == {"Experiment.shear_stress", "Experiment.fluid_flux"}

\* the statements of a call that come before the critical angle test
BeforeTest ==
    {"Experiment.shear_stress", "Experiment.fluid_flux", "SineRocking",
     "ConstantRocking", "ConstantRocking.zeros", "ConstantRocking.forward",
     "ConstantRocking.backward", "Dish.fluid_flux"}

\* the statements of ConstantRocking.angle after its assert
AfterAssert ==
    {"ConstantRocking.zeros", "ConstantRocking.forward", "ConstantRocking.backward"}

Samples(s) == 1..Len(s.values)

SomeSampleBeyond ==
    \E i \in Samples(angle) : RLt(critical_angle(dish), RAbs(angle.values[i]))

\* C1: once Dish.fluid_flux has tested its angle series, the call has failed
\* with AngleExceeded if and only if some sample has |angle| > critical_angle
\* (a sample equal to the critical angle is accepted), and a failed call has
\* computed no volume and returns no flux, not even a partial one.
C1_AngleExceededIffBeyond ==
    /\ (angle.defined /\ pc \notin BeforeTest)
           => (err = AngleExceeded <=> SomeSampleBeyond)
    /\ err = AngleExceeded
           => /\ SomeSampleBeyond
              /\ volume = NoSeries /\ grad = NoSeries
              /\ flux = NoSeries /\ stress = NoSeries

\* a series with a sample at the critical angle and one beyond it was refused
C1_Witness ==
    /\ api = "Dish.fluid_flux"
    /\ dish.kind = "CylDish"
    /\ pc = "raised" /\ err = AngleExceeded
    /\ \E i \in Samples(angle) : RAbs(angle.values[i]) = critical_angle(dish)
    /\ \E i \in Samples(angle) : angle.values[i] = RNeg(RAdd(critical_angle(dish), Q(1, 100)))

\* ConstantRocking.angle has passed its assert statement
AssertDone == rocking.kind = "ConstantRocking" /\ pc \notin {"Experiment.shear_stress", "Experiment.fluid_flux", "ConstantRocking"}

\* C2: ConstantRocking.angle(ntimes) fails with InvalidConfiguration exactly
\* when n_fwd or n_back is not strictly positive; it fails before any array is
\* allocated or written, and with both counts positive it returns its series.
C2_InvalidConfigurationIffEmptyPhase ==
    LET nf == n_fwd(rocking, ntimes)
        nb == ntimes - nf
    IN  /\ AssertDone =>
              /\ err = InvalidConfiguration <=> ~(nf > 0 /\ nb > 0)
              /\ (nf > 0 /\ nb > 0) =>
                    /\ err \in {NoError, AngleExceeded}
                    /\ pc \in AfterAssert => err = NoError
                    /\ pc \notin AfterAssert => angle.defined
        /\ err = InvalidConfiguration
              => ~loc.allocated /\ loc.times = <<>> /\ loc.values = <<>>
                 /\ loc.fwd_written = {} /\ loc.back_written = {}
                 /\ angle = NoSeries

\* a call with several samples whose velocities leave the forward phase empty
C2_Witness ==
    /\ rocking.kind = "ConstantRocking"
    /\ err = InvalidConfiguration
    /\ ntimes >= 3
    /\ rocking.forward_angular_vel # Zero

\* ConstantRocking.angle has returned
ConstantReturned == rocking.kind = "ConstantRocking" /\ angle.defined

\* C3: a returned ConstantRocking series has exactly ntimes samples; the
\* forward phase wrote the indices 0 .. n_fwd and the backward phase the last
\* n_back indices n_fwd .. ntimes - 1, all inside the array; the junction is
\* the one index both wrote, n_fwd, and holds angle_max at time
\* angle_max / forward_angular_vel, a time no other sample has.
C3_JunctionOnceAtNFwd ==
    LET nf == Trunc(RMul(RDiv(rocking.backward_angular_vel,
                              RAdd(rocking.backward_angular_vel,
                                   rocking.forward_angular_vel)), Z(ntimes)))
        nb == ntimes - nf
        tj == RDiv(rocking.angle_max, rocking.forward_angular_vel)
    IN  /\ (rocking.kind = "ConstantRocking" /\ pc = "ConstantRocking.backward")
              => loc.fwd_written = 0..nf /\ Len(loc.times) = ntimes
        /\ ConstantReturned =>
              /\ Len(angle.times) = ntimes /\ Len(angle.values) = ntimes
              /\ loc.fwd_written = 0..nf
              /\ loc.back_written = nf..(ntimes - 1)
              /\ Cardinality(loc.back_written) = nb
              /\ loc.fwd_written \cup loc.back_written = 0..(ntimes - 1)
              /\ loc.fwd_written \cap loc.back_written = {nf}
              /\ angle.values[nf + 1] = rocking.angle_max
              /\ angle.times[nf + 1] = tj
              /\ \A i \in 1..ntimes : angle.times[i] = tj => i = nf + 1

\* a returned series with samples on both sides of the junction
C3_Witness ==
    /\ ConstantReturned
    /\ loc.n_fwd >= 2 /\ loc.n_back >= 3
    /\ angle.values[loc.n_fwd + 1] = rocking.angle_max

\* C4: a returned ConstantRocking series starts at 0 and ends at 0.
C4_StartsAndEndsAtZero ==
    ConstantReturned =>
        /\ angle.values[1] = Zero
        /\ angle.values[ntimes] = Zero

AllZero(s) == \A i \in Samples(s) : s.values[i] = Zero

AngleRate == Gradient(angle.values, angle.times)

\* C6 as stated: the stress at every sample has the sign of d(angle)/dt there.
C6_StressSignFollowsAngleRate ==
    stress.defined =>
        \A i \in Samples(stress) : Sign(stress.values[i]) = Sign(AngleRate[i])

\* an interior sample between unequal time steps at which the angle turns
\* (rises on one side and falls on the other)
TurnBetweenUnequalSteps(i) ==
    /\ 1 < i /\ i < Len(angle.values)
    /\ RSub(angle.times[i], angle.times[i - 1]) # RSub(angle.times[i + 1], angle.times[i])
    /\ Sign(RSub(angle.values[i], angle.values[i - 1]))
         * Sign(RSub(angle.values[i + 1], angle.values[i])) = -1

\* C6 as amended: the stress has the sign of d(angle)/dt at every sample except
\* an interior sample between unequal time steps at which the angle turns.
C6_StressSignFollowsAngleRateOffTurns ==
    stress.defined =>
        /\ Len(stress.values) = Len(angle.values)
        /\ \A i \in Samples(stress) :
              ~TurnBetweenUnequalSteps(i)
                  => Sign(stress.values[i]) = Sign(AngleRate[i])

\* a returned stress with a rising, a stationary and a falling sample
C6_Witness ==
    /\ stress.defined /\ pc = "returned"
    /\ \E i, j, k \in Samples(stress) :
          /\ Sign(AngleRate[i]) = 1 /\ Sign(stress.values[i]) = 1
          /\ Sign(AngleRate[j]) = -1 /\ Sign(stress.values[j]) = -1
          /\ Sign(AngleRate[k]) = 0 /\ Sign(stress.values[k]) = 0

\* C7: derivate() of a ramp values = k * times + c over increasing, possibly
\* uneven, times (at least 2 samples) returns a series of the same length over
\* the same times, equal to k at every interior sample, with the one-sided
\* differences at the two ends.
C7_DerivateOfRampIsSlope ==
    (api = "TimeSeries.derivate" /\ Len(volume.values) >= 2) =>
        /\ err = NoError
        /\ pc = "returned" =>
              LET n == Len(volume.values)
                  t == volume.times
                  v == volume.values
              IN  /\ grad.defined
                  /\ Len(grad.values) = n
                  /\ grad.times = t
                  /\ grad.values[1] = RDiv(RSub(v[2], v[1]), RSub(t[2], t[1]))
                  /\ grad.values[n] = RDiv(RSub(v[n], v[n - 1]), RSub(t[n], t[n - 1]))
                  /\ \A k \in Slopes, c \in Intercepts :
                        volume = Ramp(t, k, c) =>
                            \A i \in 2..(n - 1) : grad.values[i] = k

\* the derivative of a sloping ramp over three unevenly spaced times
C7_Witness ==
    /\ api = "TimeSeries.derivate" /\ pc = "returned"
    /\ Len(volume.values) = 3
    /\ RSub(volume.times[2], volume.times[1]) # RSub(volume.times[3], volume.times[2])
    /\ volume = Ramp(volume.times, Q(1, 2), Z(1))
    /\ grad.values[2] = Q(1, 2)

\* every series that exists has as many values as times, and carries the times
\* of the series it was derived from
TimesCarried ==
    /\ \A s \in {angle, volume, grad, flux, stress} :
          s.defined => Len(s.values) = Len(s.times)
    /\ (volume.defined /\ angle.defined) => volume.times = angle.times
    /\ grad.defined => grad.times = volume.times
    /\ flux.defined => flux.times = grad.times
    /\ stress.defined => stress.times = flux.times

\* the result of the Experiment call that has returned
Result == IF api = "Experiment.shear_stress" THEN stress ELSE flux

\* C8: no step changes a series that exists; every transform's result carries
\* the times of its input; a returned Experiment call gives ntimes samples over
\* the times of rocking.angle(ntimes).
C8_TransformsKeepTimes ==
    [][/\ \A i \in 1..5 :
             <<angle, volume, grad, flux, stress>>[i].defined
                 => <<angle, volume, grad, flux, stress>>'[i]
                      = <<angle, volume, grad, flux, stress>>[i]
       /\ TimesCarried'
       /\ (api \in ExperimentApis /\ pc' = "returned") =>
             /\ Result'.defined
             /\ Len(Result'.values) = ntimes
             /\ Len(Result'.times) = ntimes
             /\ Result'.times = angle.times]_vars

\* a returned shear_stress call of several samples
C8_Witness ==
    /\ api = "Experiment.shear_stress" /\ pc = "returned"
    /\ ntimes >= 4
    /\ stress.defined /\ stress.times = angle.times
    /\ stress.values # angle.values

StrictlyIncreasing(t) == \A i \in 1..(Len(t) - 1) : RLt(t[i], t[i + 1])

\* C9: every series of an Experiment call (the rocking angle and all that is
\* derived from it) has as many times as values, and strictly increasing times.
C9_TimesStrictlyIncrease ==
    api \in ExperimentApis =>
        \A s \in {angle, volume, grad, flux, stress} :
            s.defined =>
                /\ Len(s.times) = Len(s.values)
                /\ StrictlyIncreasing(s.times)

\* a ConstantRocking stress with samples after the junction
C9_Witness ==
    /\ rocking.kind = "ConstantRocking" /\ stress.defined
    /\ loc.n_back >= 2 /\ loc.n_fwd >= 2
    /\ StrictlyIncreasing(stress.times)

\* C10: an Experiment call returns or fails with AngleExceeded or
\* InvalidConfiguration, and with nothing else.
C10_OnlyTwoFailureKinds ==
    api \in ExperimentApis =>
        /\ err \in {NoError, AngleExceeded, InvalidConfiguration}
        /\ pc = "raised" => err \in {AngleExceeded, InvalidConfiguration}
=============================================================================
